---- MODULE Spec2Model ----
(***************************************************************************)
(* Tour sequencing of src/app.py: greedy_tsp (nearest neighbour),          *)
(* ortools_tsp (the optional bounded solver) and the part of the /optimize *)
(* handler that builds the visiting order and sums distance and time.      *)
(*                                                                         *)
(* Python lists of node indices are sequences (position k of the list is   *)
(* position k + 1 of the sequence); matrices are functions over 0..n-1, as *)
(* the code indexes them.                                                  *)
(***************************************************************************)
EXTENDS Integers, Sequences, FiniteSets, TLC

\* Python's None where the code holds a number (a matrix entry, next_idx,
\* fixed_start_idx).
None == -1
\* float("inf"), the initial best_dist.
Inf == -2
\* Python's None where the code holds a list (the return of ortools_tsp).
NoRoute == <<>>
\* A local of the handler that was never assigned.
Unset == <<>>

\* ---------------------------------------------------------------- bounds
\* Largest node count with enumerated matrices.
MaxN == 4
\* Distances of the enumerated matrices are 1..MaxDist.
MaxDist == 3
\* At most this many entries of an enumerated matrix are missing.
MaxMissing == 2

\* The size guard of the solver selection.
SolverNodeLimit == 25

\* ---------------------------------------------------------------- inputs
Nodes(n) == 0 .. n - 1

Pairs(n) == {p \in Nodes(n) \X Nodes(n) : p[1] # p[2]}

RECURSIVE SubsetsUpTo(_, _)
SubsetsUpTo(S, k) ==
    IF k = 0 THEN {{}}
    ELSE LET P == SubsetsUpTo(S, k - 1)
         IN  P \cup {T \cup {x} : T \in P, x \in S}

\* The matrix of the scenario: 4 nodes, symmetric.
ExampleMatrix ==
    [i \in Nodes(4) |->
        [j \in Nodes(4) |->
            << <<0, 10, 15, 20>>, <<10, 0, 35, 25>>,
               <<15, 35, 0, 30>>, <<20, 25, 30, 0>> >>[i + 1][j + 1]]]

\* A complete matrix: zero diagonal, entries in 1..MaxDist, asymmetric
\* unless a = b. Coefficients beyond MaxDist - 1 repeat the same matrices.
Pattern(n, a, b) ==
    [i \in Nodes(n) |->
        [j \in Nodes(n) |->
            IF i = j THEN 0 ELSE ((a * i + b * j) % MaxDist) + 1]]

\* The entries of S replaced by "no edge".
WithMissing(M, S) ==
    [i \in DOMAIN M |->
        [j \in DOMAIN M |-> IF <<i, j>> \in S THEN None ELSE M[i][j]]]

CompleteMatrices(n) ==
    {Pattern(n, a, b) : a \in 0 .. MaxDist - 1, b \in 0 .. MaxDist - 1}
        \cup (IF n = 4 THEN {ExampleMatrix} ELSE {})

\* The sets of missing entries: up to MaxMissing legs from or to one place
\* the router cannot connect.
MissingSets(n) ==
    {{}} \cup UNION {SubsetsUpTo({p \in Pairs(n) : p[1] = x \/ p[2] = x},
                                 MaxMissing) : x \in Nodes(n)}

\* The distance matrices a call or a request is given.
Matrices(n) ==
    IF n <= MaxN
    THEN {WithMissing(M, S) : M \in CompleteMatrices(n), S \in MissingSets(n)}
    ELSE CompleteMatrices(n)

\* The duration matrix that comes with a distance matrix: other values, and
\* missing where the distance is missing ("aligned") or where the distance
\* of the opposite direction is missing ("transposed").
DurationKinds == {"aligned", "transposed"}

DurationsOf(D, kind) ==
    [i \in DOMAIN D |->
        [j \in DOMAIN D |->
            IF i = j THEN 0
            ELSE IF (IF kind = "aligned" THEN D[i][j] ELSE D[j][i]) = None
                 THEN None
                 ELSE ((i + 2 * j) % (MaxDist + 1)) + 1]]

\* The routes the solver's search may end with, as read off its solution
\* from routing.Start(0) to the end: the depot, then every other node once.
\* NoRoute is "no solution within the time limit".
Routes(m) ==
    IF m <= MaxN
    THEN {r \in [1 .. m -> Nodes(m)] :
            r[1] = 0 /\ \A x, y \in 1 .. m : x # y => r[x] # r[y]}
    ELSE {[k \in 1 .. m |-> k - 1],
          [k \in 1 .. m |-> IF k = 1 THEN 0 ELSE m + 1 - k]}

Solutions(m) == {NoRoute} \cup Routes(m)

\* Node counts of a request: depot plus 1 .. MaxN - 1 stops, and the two
\* sizes at the solver's guard (a sub-problem of 25 and of 26 nodes).
NodeCounts == (2 .. MaxN) \cup {SolverNodeLimit + 1, SolverNodeLimit + 2}

VARIABLES
    HAS_OR_TOOLS,       \* app.py:6-10, fixed at import
    phase,              \* "idle" | "done": the /optimize handler
    request,            \* what the handler is given: the request and what
                        \* geocoding and the table service answer for it
    fixed_start_idx,
    n_points,
    distances,
    durations,
    sub_distances,
    sub_order,
    ortools_result,     \* what ortools_tsp returned, when it was called
    calls,              \* the solver functions the handler called, in order
    solver_used,
    order,
    total_distance,
    total_duration,
    status,             \* HTTP status of the response
    error,              \* the response's error text
    distance_matrix,    \* greedy_tsp: its arguments and locals
    roundtrip,
    visited,
    path,
    remaining,          \* iterations left of "for _ in range(n - 1)"
    gpc                 \* "start" | "loop" | "close" | "done"

handlerVars ==
    <<phase, request, fixed_start_idx, n_points, distances, durations,
      sub_distances, sub_order, ortools_result, calls, solver_used, order,
      total_distance, total_duration, status, error>>

greedyVars == <<distance_matrix, roundtrip, visited, path, remaining, gpc>>

vars == <<HAS_OR_TOOLS, handlerVars, greedyVars>>

\* ------------------------------------------------------------ greedy_tsp
len(matrix) == Cardinality(DOMAIN matrix)

better_or_equal(d, best_dist) == d # None /\ (best_dist = Inf \/ d <= best_dist)

\* "d is not None and d < best_dist"
better(d, best_dist) == d # None /\ (best_dist = Inf \/ d < best_dist)

\* "for j in range(n)": the scan for the nearest unvisited node.
RECURSIVE scan(_, _, _, _, _, _)
scan(matrix, seen, last, j, next_idx, best_dist) ==
    IF j = len(matrix) THEN next_idx
    ELSE IF ~seen[j] /\ better(matrix[last][j], best_dist)
         THEN scan(matrix, seen, last, j + 1, j, matrix[last][j])
         ELSE scan(matrix, seen, last, j + 1, next_idx, best_dist)

nearest(matrix, seen, last) == scan(matrix, seen, last, 0, None, Inf)

close_path_always(p, rt) == IF rt THEN Append(p, 0) ELSE p

\* "if roundtrip and path[0] != path[-1]: path.append(0)"
close_path(p, rt) == IF rt /\ p[1] # p[Len(p)] THEN Append(p, 0) ELSE p

\* "for _ in range(n - 1)", k iterations left.
RECURSIVE greedy_loop(_, _, _, _)
greedy_loop(matrix, seen, p, k) ==
    IF k = 0 THEN p
    ELSE LET next_idx == nearest(matrix, seen, p[Len(p)])
         IN  IF next_idx = None THEN p
             ELSE greedy_loop(matrix, [seen EXCEPT ![next_idx] = TRUE],
                              Append(p, next_idx), k - 1)

greedy_tsp(matrix, rt) ==
    IF len(matrix) = 0 THEN <<>>
    ELSE close_path(
            greedy_loop(matrix, [j \in DOMAIN matrix |-> j = 0], <<0>>,
                        len(matrix) - 1),
            rt)

\* greedy_tsp, one action per step of its loop.
GreedyStart ==
    /\ gpc = "start"
    /\ IF len(distance_matrix) = 0
       THEN /\ path' = <<>>
            /\ gpc' = "done"
            /\ UNCHANGED <<visited, remaining>>
       ELSE /\ visited' = [j \in DOMAIN distance_matrix |-> j = 0]
            /\ path' = <<0>>
            /\ remaining' = len(distance_matrix) - 1
            /\ gpc' = "loop"
    /\ UNCHANGED <<HAS_OR_TOOLS, handlerVars, distance_matrix, roundtrip>>

GreedyIterate ==
    /\ gpc = "loop"
    /\ remaining > 0
    /\ LET next_idx == nearest(distance_matrix, visited, path[Len(path)])
       IN  /\ next_idx # None
           /\ visited' = [visited EXCEPT ![next_idx] = TRUE]
           /\ path' = Append(path, next_idx)
    /\ remaining' = remaining - 1
    /\ UNCHANGED <<HAS_OR_TOOLS, handlerVars, distance_matrix, roundtrip, gpc>>

GreedyBreak ==
    /\ gpc = "loop"
    /\ remaining > 0
    /\ nearest(distance_matrix, visited, path[Len(path)]) = None
    /\ gpc' = "close"
    /\ UNCHANGED <<HAS_OR_TOOLS, handlerVars, distance_matrix, roundtrip,
                   visited, path, remaining>>

GreedyLoopEnd ==
    /\ gpc = "loop"
    /\ remaining = 0
    /\ gpc' = "close"
    /\ UNCHANGED <<HAS_OR_TOOLS, handlerVars, distance_matrix, roundtrip,
                   visited, path, remaining>>

GreedyReturn ==
    /\ gpc = "close"
    /\ path' = close_path(path, roundtrip)
    /\ gpc' = "done"
    /\ UNCHANGED <<HAS_OR_TOOLS, handlerVars, distance_matrix, roundtrip,
                   visited, remaining>>

\* ----------------------------------------------------------- ortools_tsp
\* solution: what routing.SolveWithParameters gave (NoRoute for None).
ortools_tsp(matrix, rt, solution) ==
    IF ~HAS_OR_TOOLS THEN NoRoute
    ELSE IF len(matrix) <= 1 THEN <<0>>
    ELSE IF solution = NoRoute THEN NoRoute
    ELSE LET route == solution
             front == IF rt /\ route[1] # 0 THEN <<0>> \o route ELSE route
         IN  IF rt /\ front[Len(front)] # 0 THEN Append(front, 0) ELSE front

\* -------------------------------------------------------------- optimize
fixed_start_never_missing(raw) == FALSE

\* "if not fixed_start_raw"
fixed_start_missing(raw) == ~raw

\* "if fixed_start_idx is None or fixed_start_idx == 0"
fixed_start_unmatched(idx) == idx = None \/ idx = 0

never_single_stop(n) == FALSE

\* "if n_points == 2"
single_stop(n) == n = 2

sub_nodes_ascending(n, f) == [k \in 1 .. n - 1 |-> k]

\* "[fixed_start_idx] + [i for i in range(1, n_points) if i != fixed_start_idx]"
sub_nodes(n, f) ==
    <<f>> \o SelectSeq([k \in 1 .. n - 1 |-> k], LAMBDA i : i # f)

\* "sub_distances[i][j] = distances[sub_nodes[i]][sub_nodes[j]]"
build_sub_distances(matrix, nodes) ==
    [i \in Nodes(Len(nodes)) |->
        [j \in Nodes(Len(nodes)) |-> matrix[nodes[i + 1]][nodes[j + 1]]]]

use_ortools_unguarded(m) == HAS_OR_TOOLS

\* "use_ortools = HAS_OR_TOOLS and m <= 25"
use_ortools(m) == HAS_OR_TOOLS /\ m <= SolverNodeLimit

\* "solver_used = "ortools" if use_ortools else "greedy""
initial_label(use) == IF use THEN "ortools" ELSE "greedy"

fallback_label_kept(label) == label

\* "if sub_order is None: solver_used = "greedy""
fallback_label(label) == "greedy"

\* Lines 329-338: the solver selection, the solve and the fallback.
solve(matrix, solution) ==
    IF use_ortools(len(matrix))
    THEN LET out == ortools_tsp(matrix, TRUE, solution)
         IN  IF out = NoRoute
             THEN [sub_order |-> greedy_tsp(matrix, TRUE),
                   solver_used |-> fallback_label(initial_label(TRUE)),
                   ortools_result |-> out,
                   calls |-> <<"ortools_tsp", "greedy_tsp">>]
             ELSE [sub_order |-> out,
                   solver_used |-> initial_label(TRUE),
                   ortools_result |-> out,
                   calls |-> <<"ortools_tsp">>]
    ELSE [sub_order |-> greedy_tsp(matrix, TRUE),
          solver_used |-> initial_label(FALSE),
          ortools_result |-> Unset,
          calls |-> <<"greedy_tsp">>]

InSeq(x, s) == \E k \in 1 .. Len(s) : s[k] = x

RECURSIVE splice_unchecked(_, _, _, _)
splice_unchecked(tour, nodes, k, global_order) ==
    IF k > Len(tour) THEN global_order
    ELSE splice_unchecked(tour, nodes, k + 1,
                          Append(global_order, nodes[tour[k] + 1]))

\* "for k in sub_order: node = sub_nodes[k]; if node not in used: ..."
\* (used holds exactly the nodes of global_order)
RECURSIVE splice(_, _, _, _)
splice(tour, nodes, k, global_order) ==
    IF k > Len(tour) THEN global_order
    ELSE LET node == nodes[tour[k] + 1]
         IN  IF InSeq(node, global_order)
             THEN splice(tour, nodes, k + 1, global_order)
             ELSE splice(tour, nodes, k + 1, Append(global_order, node))

\* "if global_order[-1] != 0: global_order.append(0)"
close_order(global_order) ==
    IF global_order[Len(global_order)] # 0 THEN Append(global_order, 0)
    ELSE global_order

\* Lines 317-355: the sub-problem, its solve and the splice.
compose(n, f, matrix, solution) ==
    LET nodes == sub_nodes(n, f)
        sub == build_sub_distances(matrix, nodes)
        s == solve(sub, solution)
    IN  [sub_distances |-> sub,
         sub_order |-> s.sub_order,
         ortools_result |-> s.ortools_result,
         calls |-> s.calls,
         solver_used |-> s.solver_used,
         order |-> close_order(splice(s.sub_order, nodes, 1, <<0>>))]

\* "for i in range(len(order) - 1)": legs i .. last of the tour; adding None
\* raises TypeError.
RECURSIVE aggregate_loop(_, _, _, _, _, _, _)
aggregate_loop(dist, dur, tour, i, last, td, tu) ==
    IF i > last
    THEN [raised |-> FALSE, total_distance |-> td, total_duration |-> tu]
    ELSE LET a == tour[i]
             b == tour[i + 1]
         IN  IF dist[a][b] = None \/ dur[a][b] = None
             THEN [raised |-> TRUE, total_distance |-> None,
                   total_duration |-> None]
             ELSE aggregate_loop(dist, dur, tour, i + 1, last,
                                 td + dist[a][b], tu + dur[a][b])

aggregate_open(dist, dur, tour) ==
    aggregate_loop(dist, dur, tour, 1, Len(tour) - 2, 0, 0)

\* Lines 357-365.
aggregate(dist, dur, tour) ==
    aggregate_loop(dist, dur, tour, 1, Len(tour) - 1, 0, 0)

\* The handler's locals when nothing was assigned yet.
locals0 ==
    [fixed_start_idx |-> None, n_points |-> None, distances |-> Unset,
     durations |-> Unset, sub_distances |-> Unset, sub_order |-> Unset,
     ortools_result |-> Unset, calls |-> <<>>, solver_used |-> "",
     order |-> Unset, total_distance |-> None, total_duration |-> None,
     status |-> 0, error |-> ""]

\* The handler from the request to the response; the result is its locals.
optimize(req, solution) ==
    IF fixed_start_missing(req.fixed_start_raw)
    THEN [locals0 EXCEPT !.status = 400,
                         !.error = "Bitte einen festen ersten Stopp angeben."]
    ELSE IF fixed_start_unmatched(req.fixed_start_idx)
    THEN [locals0 EXCEPT
            !.fixed_start_idx = req.fixed_start_idx,
            !.status = 400,
            !.error = "Fester erster Stopp konnte nicht eindeutig zugeordnet werden."]
    ELSE LET n == len(req.distances)
             t == IF single_stop(n)
                  THEN [sub_distances |-> Unset, sub_order |-> Unset,
                        ortools_result |-> Unset, calls |-> <<>>,
                        solver_used |-> "greedy", order |-> <<0, 1, 0>>]
                  ELSE compose(n, req.fixed_start_idx, req.distances, solution)
             sum == aggregate(req.distances, req.durations, t.order)
         IN  [fixed_start_idx |-> req.fixed_start_idx,
              n_points |-> n,
              distances |-> req.distances,
              durations |-> req.durations,
              sub_distances |-> t.sub_distances,
              sub_order |-> t.sub_order,
              ortools_result |-> t.ortools_result,
              calls |-> t.calls,
              solver_used |-> t.solver_used,
              order |-> t.order,
              total_distance |-> sum.total_distance,
              total_duration |-> sum.total_duration,
              status |-> IF sum.raised THEN 500 ELSE 200,
              error |-> IF sum.raised THEN "TypeError" ELSE ""]

\* The requests: with or without the text of a fixed first stop; the index
\* the text resolves to (None: no match; never matched when there is no text).
Requests(n) ==
    {[fixed_start_raw |-> raw, fixed_start_idx |-> idx,
      distances |-> D, durations |-> DurationsOf(D, kind)] :
        raw \in BOOLEAN, idx \in {None} \cup Nodes(n),
        D \in Matrices(n), kind \in DurationKinds}

\* The solver's search has an outcome only where the handler runs it.
Outcomes(req) ==
    IF /\ ~fixed_start_missing(req.fixed_start_raw)
       /\ ~fixed_start_unmatched(req.fixed_start_idx)
       /\ HAS_OR_TOOLS
    THEN Solutions(len(req.distances) - 1)
    ELSE {NoRoute}

NoRequest ==
    [fixed_start_raw |-> FALSE, fixed_start_idx |-> None,
     distances |-> Unset, durations |-> Unset]

Assign(r) ==
    /\ fixed_start_idx' = r.fixed_start_idx
    /\ n_points' = r.n_points
    /\ distances' = r.distances
    /\ durations' = r.durations
    /\ sub_distances' = r.sub_distances
    /\ sub_order' = r.sub_order
    /\ ortools_result' = r.ortools_result
    /\ calls' = r.calls
    /\ solver_used' = r.solver_used
    /\ order' = r.order
    /\ total_distance' = r.total_distance
    /\ total_duration' = r.total_duration
    /\ status' = r.status
    /\ error' = r.error

\* POST /optimize, from the request to the response.
Optimize ==
    /\ phase = "idle"
    /\ \E n \in NodeCounts :
         \E req \in Requests(n) :
            /\ req.fixed_start_raw \/ req.fixed_start_idx = None
            /\ \E solution \in Outcomes(req) :
                 /\ request' = req
                 /\ Assign(optimize(req, solution))
    /\ phase' = "done"
    /\ UNCHANGED <<HAS_OR_TOOLS, greedyVars>>

\* The response is sent; the handler's locals are gone.
Return ==
    /\ phase = "done"
    /\ phase' = "idle"
    /\ request' = NoRequest
    /\ Assign(locals0)
    /\ UNCHANGED <<HAS_OR_TOOLS, greedyVars>>

HandlerIdle ==
    /\ phase = "idle"
    /\ request = NoRequest
    /\ fixed_start_idx = None
    /\ n_points = None
    /\ distances = Unset
    /\ durations = Unset
    /\ sub_distances = Unset
    /\ sub_order = Unset
    /\ ortools_result = Unset
    /\ calls = <<>>
    /\ solver_used = ""
    /\ order = Unset
    /\ total_distance = None
    /\ total_duration = None
    /\ status = 0
    /\ error = ""

GreedyIdle ==
    /\ distance_matrix = Unset
    /\ roundtrip = FALSE
    /\ visited = Unset
    /\ path = Unset
    /\ remaining = 0
    /\ gpc = "done"

\* The server: requests to /optimize, one at a time.
Init ==
    /\ HAS_OR_TOOLS \in BOOLEAN
    /\ HandlerIdle
    /\ GreedyIdle

Next == Optimize \/ Return

Spec == Init /\ [][Next]_vars

\* greedy_tsp called on a matrix of 0 .. MaxN nodes.
InitGreedy ==
    /\ HAS_OR_TOOLS = FALSE
    /\ HandlerIdle
    /\ \E n \in 0 .. MaxN : distance_matrix \in Matrices(n)
    /\ roundtrip \in BOOLEAN
    /\ visited = Unset
    /\ path = Unset
    /\ remaining = 0
    /\ gpc = "start"

NextGreedy ==
    GreedyStart \/ GreedyIterate \/ GreedyBreak \/ GreedyLoopEnd \/ GreedyReturn

SpecGreedy == InitGreedy /\ [][NextGreedy]_vars

\* The stepped greedy_tsp and the operator the handler uses agree.
GreedyStepsAgree ==
    gpc = "done" /\ distance_matrix # Unset
        => path = greedy_tsp(distance_matrix, roundtrip)

\* ------------------------------------------------------------ properties
\* The handler built a visiting order (the response is 200, or the sums
\* raised after the order was built).
Composed == phase = "done" /\ status \in {200, 500}

AllPresent(M) == \A i, j \in DOMAIN M : i # j => M[i][j] # None

Reverse(s) == [k \in 1 .. Len(s) |-> s[Len(s) + 1 - k]]

\* The cost of a tour, leg by leg in no particular order.
RECURSIVE SumOver(_, _, _)
SumOver(M, tour, K) ==
    IF K = {} THEN 0
    ELSE LET k == CHOOSE x \in K : TRUE
         IN  M[tour[k]][tour[k + 1]] + SumOver(M, tour, K \ {k})

LegSum(M, tour) == SumOver(M, tour, 1 .. Len(tour) - 1)

\* C1: with a fixed second stop f, whatever the matrix and whatever the
\* solver did, the order starts at the depot and its second element is f
\* (order[0] = 0 and order[1] = f in the code's indexing).
C1_FixedStopIsSecond ==
    Composed =>
        /\ Len(order) >= 2
        /\ order[1] = 0
        /\ order[2] = fixed_start_idx
        /\ fixed_start_idx \in 1 .. n_points - 1

\* C1 witness: the last stop is the fixed one, an entry is missing, and
\* the solver gave up so that greedy_tsp was run again.
C1_Witness ==
    /\ Composed
    /\ n_points = 4
    /\ fixed_start_idx = 3
    /\ ~AllPresent(distances)
    /\ calls = <<"ortools_tsp", "greedy_tsp">>
    /\ order[2] = 3

\* C2: for n >= 3 the spliced tour is [0, f, <other stops>, 0]: the depot
\* only first and last, no stop twice, and every stop exactly once when the
\* sub-matrix has no missing entry.
C2_SplicedTourShape ==
    Composed /\ n_points >= 3 =>
        /\ order[1] = 0
        /\ order[2] = fixed_start_idx
        /\ order[Len(order)] = 0
        /\ \A k \in 2 .. Len(order) - 1 : order[k] \in 1 .. n_points - 1
        /\ \A k, l \in 2 .. Len(order) - 1 : k # l => order[k] # order[l]
        /\ AllPresent(sub_distances) =>
              /\ Len(order) = n_points + 1
              /\ {order[k] : k \in 2 .. n_points} = 1 .. n_points - 1

\* C2 witness: four nodes, a complete sub-matrix, the stops after f not in
\* ascending order.
C2_Witness ==
    /\ Composed
    /\ n_points = 4
    /\ AllPresent(sub_distances)
    /\ order = <<0, 2, 3, 1, 0>>

\* greedy_tsp's loop has appended path[2 .. LoopLen]; a closing depot is not
\* one of its steps.
LoopLen ==
    IF gpc = "done" /\ roundtrip /\ Len(path) > 1 THEN Len(path) - 1
    ELSE Len(path)

\* C3 as stated: for n >= 1 the round trip starts and ends at node 0, no
\* node but the closing depot repeats, and with every off-diagonal entry
\* present it is 0, a permutation of 1..n-1, then 0.
C3_Original ==
    gpc = "done" /\ roundtrip /\ len(distance_matrix) >= 1 =>
        /\ path[1] = 0
        /\ path[Len(path)] = 0
        /\ \A k, l \in 1 .. Len(path) :
              k < l /\ path[k] = path[l] => k = 1 /\ l = Len(path)
        /\ AllPresent(distance_matrix) =>
              /\ Len(path) = len(distance_matrix) + 1
              /\ {path[k] : k \in 2 .. len(distance_matrix)}
                    = 1 .. len(distance_matrix) - 1

\* C3 amended: as C3, but the closing depot is there only for n >= 2; for
\* n = 1 the round trip is the single element 0.
C3_RoundTripOfGreedy ==
    gpc = "done" /\ roundtrip /\ len(distance_matrix) >= 1 =>
        /\ path[1] = 0
        /\ path[Len(path)] = 0
        /\ \A k, l \in 1 .. Len(path) :
              k < l /\ path[k] = path[l] => k = 1 /\ l = Len(path)
        /\ AllPresent(distance_matrix) =>
              IF len(distance_matrix) = 1 THEN path = <<0>>
              ELSE /\ Len(path) = len(distance_matrix) + 1
                   /\ {path[k] : k \in 2 .. len(distance_matrix)}
                         = 1 .. len(distance_matrix) - 1

\* C3 witness: the round trip over the depot alone.
C3_Witness ==
    /\ gpc = "done"
    /\ roundtrip
    /\ len(distance_matrix) = 1
    /\ path = <<0>>

\* C4: the label names the function whose output is the tour: "ortools"
\* only when ortools_tsp returned the sub-tour in use; when ortools_tsp was
\* run and returned None, greedy_tsp is run on the same sub-matrix and the
\* label is "greedy".
C4_LabelNamesProducer ==
    Composed /\ n_points >= 3 =>
        /\ solver_used \in {"ortools", "greedy"}
        /\ solver_used = "ortools" =>
              /\ calls = <<"ortools_tsp">>
              /\ ortools_result # NoRoute
              /\ sub_order = ortools_result
        /\ solver_used = "greedy" =>
              /\ calls[Len(calls)] = "greedy_tsp"
              /\ sub_order = greedy_tsp(sub_distances, TRUE)
        /\ calls[1] = "ortools_tsp" /\ ortools_result = NoRoute =>
              /\ calls = <<"ortools_tsp", "greedy_tsp">>
              /\ solver_used = "greedy"

\* C4 witness: the solver was run on a three-node sub-problem and gave up.
C4_Witness ==
    /\ Composed
    /\ n_points = 4
    /\ calls = <<"ortools_tsp", "greedy_tsp">>
    /\ ortools_result = NoRoute
    /\ solver_used = "greedy"

\* C5: on a sub-problem of m nodes ortools_tsp is called if and only if
\* OR-Tools is there and m <= 25; otherwise greedy_tsp alone is called.
C5_SolverIffAvailableAndSmall ==
    Composed /\ n_points >= 3 =>
        LET m == len(sub_distances)
            selected == HAS_OR_TOOLS /\ m <= SolverNodeLimit
        IN  /\ m = n_points - 1
            /\ InSeq("ortools_tsp", calls) <=> selected
            /\ ~selected => calls = <<"greedy_tsp">>

\* C5 witness: OR-Tools is there and the sub-problem has 26 nodes.
C5_Witness ==
    /\ Composed
    /\ HAS_OR_TOOLS
    /\ len(sub_distances) = SolverNodeLimit + 1
    /\ calls = <<"greedy_tsp">>

C7_TotalsAreLegSums ==
    phase = "done" /\ status = 200 =>
        /\ total_distance = LegSum(distances, order)
        /\ total_duration = LegSum(durations, order)

\* C7 witness: an asymmetric matrix on which the reversed tour costs
\* something else.
C7_Witness ==
    /\ phase = "done"
    /\ status = 200
    /\ n_points = 4
    /\ Len(order) = 5
    /\ total_distance # LegSum(distances, Reverse(order))
    /\ total_duration # LegSum(durations, Reverse(order))

\* C8: with the depot and one stop the order is [0, 1, 0], the label is
\* "greedy", no solver function is called and no sub-matrix is built.
C8_SingleStop ==
    Composed /\ n_points = 2 =>
        /\ fixed_start_idx = 1
        /\ order = <<0, 1, 0>>
        /\ solver_used = "greedy"
        /\ calls = <<>>
        /\ sub_distances = Unset
        /\ sub_order = Unset

\* C8 witness: one stop, OR-Tools there.
C8_Witness ==
    /\ Composed
    /\ n_points = 2
    /\ HAS_OR_TOOLS
    /\ status = 200
    /\ order = <<0, 1, 0>>

\* C9: every node greedy_tsp appends is, among the unvisited nodes with an
\* entry from the last node, one of least distance and of them the one of
\* lowest index; the loop stops early only when there is no such node; and
\* on the scenario's matrix the round trip is [0,1,3,2,0], of length 80.
C9_NearestLowestIndex ==
    gpc \in {"loop", "close", "done"} /\ len(distance_matrix) > 0 =>
        /\ \A k \in 2 .. LoopLen :
              LET last == path[k - 1]
                  next_idx == path[k]
                  before == {path[i] : i \in 1 .. k - 1}
                  open == {j \in DOMAIN distance_matrix \ before :
                              distance_matrix[last][j] # None}
              IN  /\ next_idx \in open
                  /\ \A j \in open :
                        \/ distance_matrix[last][next_idx]
                              < distance_matrix[last][j]
                        \/ /\ distance_matrix[last][next_idx]
                                 = distance_matrix[last][j]
                           /\ next_idx <= j
        /\ gpc \in {"close", "done"} /\ LoopLen < len(distance_matrix) =>
              \A j \in DOMAIN distance_matrix :
                  \/ \E i \in 1 .. LoopLen : path[i] = j
                  \/ distance_matrix[path[LoopLen]][j] = None
        /\ gpc = "done" /\ roundtrip /\ distance_matrix = ExampleMatrix =>
              /\ path = <<0, 1, 3, 2, 0>>
              /\ LegSum(ExampleMatrix, path) = 80

\* C9 witness: the round trip on the scenario's matrix.
C9_Witness ==
    /\ gpc = "done"
    /\ roundtrip
    /\ distance_matrix = ExampleMatrix
    /\ path = <<0, 1, 3, 2, 0>>

\* C10 as stated: when greedy_tsp stopped early and returned a partial
\* tour, the request that uses the tour completes without an error.
C10_PartialTourCompletes ==
    /\ Composed
    /\ n_points >= 3
    /\ calls[Len(calls)] = "greedy_tsp"
    /\ Len(sub_order) < len(sub_distances) + 1
    => status = 200

====
